---- MODULE Spec2Model ----
(***************************************************************************)
(* Model of the technical-sheet extraction pipeline                        *)
(* (src/src/ai_processor/pipeline_modal.py, class Pipeline, with the       *)
(* stamping and analysis stages of src/src/ai_processor/                   *)
(* document_processor.py that a run goes through first).                   *)
(*                                                                         *)
(* Text is a sequence of one-character strings.  Python values are tagged  *)
(* records: [t |-> "NoneType"], [t |-> "bool", b], [t |-> "int", n],       *)
(* [t |-> "float", n, d] (the decimal n/d, d a power of ten, trailing      *)
(* zeros removed), [t |-> "str", s], [t |-> "list", a] and                 *)
(* [t |-> "dict", o] (o a sequence of <<key, value>> pairs in insertion    *)
(* order, keys distinct).                                                  *)
(*                                                                         *)
(* Input domain of the text operators: printable ASCII characters without  *)
(* backslash; numbers without exponent, without "_" digit separators and   *)
(* of magnitudes a float holds exactly enough to compare; no NaN /         *)
(* Infinity literals; confidences of at most two decimals where they are   *)
(* formatted.                                                              *)
(***************************************************************************)
EXTENDS Integers, Sequences, FiniteSets, TLC

(***************************************************************************)
(* Python values                                                           *)
(***************************************************************************)
PyNone == [t |-> "NoneType"]
PyBool(b) == [t |-> "bool", b |-> b]
PyInt(n) == [t |-> "int", n |-> n]
PyStr(s) == [t |-> "str", s |-> s]
PyList(a) == [t |-> "list", a |-> a]
PyDict(o) == [t |-> "dict", o |-> o]

RECURSIVE PyFloat(_, _)
PyFloat(n, d) ==
    IF d > 1 /\ n % 10 = 0 THEN PyFloat(n \div 10, d \div 10)
    ELSE [t |-> "float", n |-> n, d |-> d]

\* isinstance(v, int): bool is a subclass of int
IsInstanceInt(v) == v.t \in {"int", "bool"}

\* the integer a bool or int stands for in arithmetic and comparisons
IntValue(v) == IF v.t = "bool" THEN (IF v.b THEN 1 ELSE 0) ELSE v.n

\* a >= b on floats
FloatGE(a, b) == a.n * b.d >= b.n * a.d

(***************************************************************************)
(* Characters and str methods                                              *)
(***************************************************************************)
Digits == <<"0", "1", "2", "3", "4", "5", "6", "7", "8", "9">>

IsDigit(c) == \E k \in 1..10 : Digits[k] = c

DigitVal(c) == (CHOOSE k \in 1..10 : Digits[k] = c) - 1

\* characters str.strip(), int() and float() treat as white space
Whitespace == {" ", "\n", "\t", "\r"}

\* value of the decimal digits s[i..j-1]
RECURSIVE DecValue(_, _, _)
DecValue(s, i, j) ==
    IF i >= j THEN 0 ELSE DecValue(s, i, j - 1) * 10 + DigitVal(s[j - 1])

\* first position >= i that holds no digit
RECURSIVE DigitsEnd(_, _)
DigitsEnd(s, i) ==
    IF i <= Len(s) /\ IsDigit(s[i]) THEN DigitsEnd(s, i + 1) ELSE i

RECURSIVE Pow10(_)
Pow10(k) == IF k <= 0 THEN 1 ELSE 10 * Pow10(k - 1)

\* str.find(c): 0-based index of the first occurrence, -1 if none
find(s, c) ==
    IF \E k \in 1..Len(s) : s[k] = c
    THEN (CHOOSE k \in 1..Len(s) : s[k] = c /\ \A j \in 1..(k - 1) : s[j] # c) - 1
    ELSE -1

\* str.rfind(c): 0-based index of the last occurrence, -1 if none
rfind(s, c) ==
    IF \E k \in 1..Len(s) : s[k] = c
    THEN (CHOOSE k \in 1..Len(s) : s[k] = c /\ \A j \in (k + 1)..Len(s) : s[j] # c) - 1
    ELSE -1

\* the slice s[lo:hi] for 0 <= lo, 0 <= hi (0-based, hi exclusive)
Slice(s, lo, hi) == SubSeq(s, lo + 1, IF hi > Len(s) THEN Len(s) ELSE hi)

\* str.strip()
RECURSIVE strip(_)
strip(s) ==
    IF s = <<>> THEN s
    ELSE IF s[1] \in Whitespace THEN strip(Tail(s))
    ELSE IF s[Len(s)] \in Whitespace THEN strip(SubSeq(s, 1, Len(s) - 1))
    ELSE s

\* str.split(","): the pieces between commas, at least one piece
RECURSIVE split(_)
split(s) ==
    LET k == find(s, ",")
    IN  IF k < 0 THEN <<s>>
        ELSE <<SubSeq(s, 1, k)>> \o split(SubSeq(s, k + 2, Len(s)))

(***************************************************************************)
(* Results of calls that may raise are [ok, v, exc]: ok = FALSE means the  *)
(* exception class exc was raised.  int(str) and float(str).               *)
(***************************************************************************)
Raise(exc) == [ok |-> FALSE, v |-> PyNone, exc |-> exc]
Return(v) == [ok |-> TRUE, v |-> v, exc |-> "none"]

\* int(s) for a str s: optional white space, optional sign, digits
IntOfStr(s) ==
    LET u == strip(s)
        signed == u # <<>> /\ u[1] \in {"-", "+"}
        start == IF signed THEN 2 ELSE 1
    IN  IF start <= Len(u) /\ DigitsEnd(u, start) = Len(u) + 1
        THEN Return(PyInt((IF signed /\ u[1] = "-" THEN -1 ELSE 1)
                          * DecValue(u, start, Len(u) + 1)))
        ELSE Raise("ValueError")

\* float(s) for a str s: optional white space, optional sign,
\* digits with an optional point ("1", "1.", ".5", "1.5")
FloatOfStr(s) ==
    LET u == strip(s)
        signed == u # <<>> /\ u[1] \in {"-", "+"}
        start == IF signed THEN 2 ELSE 1
        intEnd == DigitsEnd(u, start)
        hasPoint == intEnd <= Len(u) /\ u[intEnd] = "."
        fracEnd == IF hasPoint THEN DigitsEnd(u, intEnd + 1) ELSE intEnd
        nInt == intEnd - start
        nFrac == IF hasPoint THEN fracEnd - (intEnd + 1) ELSE 0
        sign == IF signed /\ u[1] = "-" THEN -1 ELSE 1
    IN  IF fracEnd = Len(u) + 1 /\ nInt + nFrac > 0
        THEN Return(PyFloat(sign * (DecValue(u, start, intEnd) * Pow10(nFrac)
                                    + (IF hasPoint
                                       THEN DecValue(u, intEnd + 1, fracEnd)
                                       ELSE 0)),
                            Pow10(nFrac)))
        ELSE Raise("ValueError")

(***************************************************************************)
(* json.loads: results are [ok, v, i]; ok = FALSE is json.JSONDecodeError, *)
(* i is the position after the value                                       *)
(***************************************************************************)
DecodeError == [ok |-> FALSE, v |-> PyNone, i |-> 0]
Decoded(v, i) == [ok |-> TRUE, v |-> v, i |-> i]

\* json.decoder.WHITESPACE.match(s, i).end()
RECURSIVE SkipWs(_, _)
SkipWs(s, i) ==
    IF i <= Len(s) /\ s[i] \in Whitespace THEN SkipWs(s, i + 1) ELSE i

\* s holds the characters of word from position i on
StartsWith(s, i, word) ==
    /\ i + Len(word) - 1 <= Len(s)
    /\ SubSeq(s, i, i + Len(word) - 1) = word

\* position of the quote that ends the string opened before i; 0 when the
\* string is not terminated or holds a control character
RECURSIVE StringEnd(_, _)
StringEnd(s, i) ==
    IF i > Len(s) THEN 0
    ELSE IF s[i] = "\"" THEN i
    ELSE IF s[i] \in {"\n", "\t", "\r"} THEN 0
    ELSE StringEnd(s, i + 1)

\* json.decoder.py_scanstring, s[i] is the opening quote
ParseString(s, i) ==
    LET e == StringEnd(s, i + 1)
    IN  IF e = 0 THEN DecodeError
        ELSE Decoded(PyStr(SubSeq(s, i + 1, e - 1)), e + 1)

\* json.scanner NUMBER_RE: (-?(?:0|[1-9]\d*))(\.\d+)?
ParseNumber(s, i) ==
    LET neg == s[i] = "-"
        start == IF neg THEN i + 1 ELSE i
        intEnd == IF start <= Len(s) /\ s[start] = "0" THEN start + 1
                  ELSE DigitsEnd(s, start)
        fracEnd == IF intEnd <= Len(s) /\ s[intEnd] = "."
                   THEN DigitsEnd(s, intEnd + 1) ELSE intEnd
        hasFrac == fracEnd > intEnd + 1
        sign == IF neg THEN -1 ELSE 1
    IN  IF intEnd = start THEN DecodeError
        ELSE IF hasFrac
        THEN Decoded(PyFloat(sign * (DecValue(s, start, intEnd)
                                         * Pow10(fracEnd - (intEnd + 1))
                                     + DecValue(s, intEnd + 1, fracEnd)),
                             Pow10(fracEnd - (intEnd + 1))),
                     fracEnd)
        ELSE Decoded(PyInt(sign * DecValue(s, start, intEnd)), intEnd)

\* dict assignment o[k] = v: a repeated key keeps its place, takes the value
DictSet(o, k, v) ==
    IF \E j \in 1..Len(o) : o[j][1] = k
    THEN [j \in 1..Len(o) |-> IF o[j][1] = k THEN <<k, v>> ELSE o[j]]
    ELSE Append(o, <<k, v>>)

RECURSIVE ParseValue(_, _)
RECURSIVE ParseArrayItems(_, _, _)
RECURSIVE ParseObjectItems(_, _, _)

\* json.scanner.py_make_scanner._scan_once at position i
ParseValue(s, i) ==
    IF i > Len(s) THEN DecodeError
    ELSE IF s[i] = "\"" THEN ParseString(s, i)
    ELSE IF s[i] = "{"
    THEN LET j == SkipWs(s, i + 1)
         IN  IF j <= Len(s) /\ s[j] = "}" THEN Decoded(PyDict(<<>>), j + 1)
             ELSE ParseObjectItems(s, j, <<>>)
    ELSE IF s[i] = "["
    THEN LET j == SkipWs(s, i + 1)
         IN  IF j <= Len(s) /\ s[j] = "]" THEN Decoded(PyList(<<>>), j + 1)
             ELSE ParseArrayItems(s, j, <<>>)
    ELSE IF StartsWith(s, i, <<"n", "u", "l", "l">>) THEN Decoded(PyNone, i + 4)
    ELSE IF StartsWith(s, i, <<"t", "r", "u", "e">>)
    THEN Decoded(PyBool(TRUE), i + 4)
    ELSE IF StartsWith(s, i, <<"f", "a", "l", "s", "e">>)
    THEN Decoded(PyBool(FALSE), i + 5)
    ELSE IF IsDigit(s[i]) \/ s[i] = "-" THEN ParseNumber(s, i)
    ELSE DecodeError

\* json.decoder.JSONArray: the items from position i on, acc the items so far
ParseArrayItems(s, i, acc) ==
    LET r == ParseValue(s, i)
        j == SkipWs(s, r.i)
    IN  IF ~r.ok \/ j > Len(s) THEN DecodeError
        ELSE IF s[j] = "]" THEN Decoded(PyList(Append(acc, r.v)), j + 1)
        ELSE IF s[j] = ","
        THEN ParseArrayItems(s, SkipWs(s, j + 1), Append(acc, r.v))
        ELSE DecodeError

\* json.decoder.JSONObject: the pairs from position i on, acc the pairs so far
ParseObjectItems(s, i, acc) ==
    IF i > Len(s) \/ s[i] # "\"" THEN DecodeError
    ELSE
    LET k == ParseString(s, i)
        c == SkipWs(s, k.i)
        r == ParseValue(s, SkipWs(s, c + 1))
        j == SkipWs(s, r.i)
    IN  IF ~k.ok \/ c > Len(s) THEN DecodeError
        ELSE IF s[c] # ":" THEN DecodeError
        ELSE IF ~r.ok \/ j > Len(s) THEN DecodeError
        ELSE IF s[j] = "}"
        THEN Decoded(PyDict(DictSet(acc, k.v.s, r.v)), j + 1)
        ELSE IF s[j] = ","
        THEN ParseObjectItems(s, SkipWs(s, j + 1), DictSet(acc, k.v.s, r.v))
        ELSE DecodeError

\* json.loads as raw_decode: text after the first value is not looked at
json_loads_RawDecode(s) == ParseValue(s, SkipWs(s, 1))

\* json.loads(s) for a str s: one value, white space around it, nothing else
json_loads(s) ==
    LET r == ParseValue(s, SkipWs(s, 1))
    IN  IF r.ok /\ SkipWs(s, r.i) = Len(s) + 1 THEN r ELSE DecodeError

(***************************************************************************)
(* dict access and the builtins int() and float()                          *)
(***************************************************************************)
\* k in b
DictHas(o, k) == \E j \in 1..Len(o) : o[j][1] = k

\* b[k] for a key that is present
DictGet(o, k) == o[CHOOSE j \in 1..Len(o) : o[j][1] = k][2]

\* b.get(k, default)
DictGetDefault(o, k, default) == IF DictHas(o, k) THEN DictGet(o, k) ELSE default

\* float(v)
float(v) ==
    IF v.t = "float" THEN Return(v)
    ELSE IF IsInstanceInt(v) THEN Return(PyFloat(IntValue(v), 1))
    ELSE IF v.t = "str" THEN FloatOfStr(v.s)
    ELSE Raise("TypeError")

\* int(v): a float is truncated towards zero
int(v) ==
    IF IsInstanceInt(v) THEN Return(PyInt(IntValue(v)))
    ELSE IF v.t = "float"
    THEN Return(PyInt(IF v.n >= 0 THEN v.n \div v.d ELSE -((-v.n) \div v.d)))
    ELSE IF v.t = "str" THEN IntOfStr(v.s)
    ELSE Raise("TypeError")

\* the values a for loop over v visits; a value that is not iterable raises
Iterate(v) ==
    IF v.t = "list" THEN Return(v.a)
    ELSE IF v.t = "str" THEN Return([k \in 1..Len(v.s) |-> PyStr(<<v.s[k]>>)])
    ELSE IF v.t = "dict" THEN Return([k \in 1..Len(v.o) |-> PyStr(v.o[k][1])])
    ELSE Raise("TypeError")

(***************************************************************************)
(* Pipeline._parse_boundaries, pipeline_modal.py lines 59-137              *)
(***************************************************************************)
KeyProduct == <<"p", "r", "o", "d", "u", "c", "t">>
KeyConfidence == <<"c", "o", "n", "f", "i", "d", "e", "n", "c", "e">>
KeyPages == <<"p", "a", "g", "e", "s">>
KeyReason == <<"r", "e", "a", "s", "o", "n">>

UnnamedProduct ==
    PyStr(<<"U", "n", "n", "a", "m", "e", "d", " ", "P", "r", "o", "d", "u", "c", "t">>)

\* lines 86 and 91: confidence = 0.7
DefaultConfidence == PyFloat(7, 10)

\* lines 88-91: float() of the value, 0.7 when it raises
ConfidenceOf(r) == IF r.ok THEN r.v ELSE DefaultConfidence

\* lines 85-91: the confidence of element b
Confidence(b) ==
    IF DictHas(b.o, KeyConfidence)
    THEN ConfidenceOf(float(DictGet(b.o, KeyConfidence)))
    ELSE DefaultConfidence

\* line 94: confidence >= self.confidence_threshold
AboveThreshold(confidence, confidence_threshold) ==
    FloatGE(confidence, confidence_threshold)

\* lines 108-113: the integers of the tokens, [] when one of them raised
IntsOrEmpty(ints) ==
    IF \A k \in 1..Len(ints) : ints[k].ok
    THEN PyList([k \in 1..Len(ints) |-> ints[k].v])
    ELSE PyList(<<>>)

\* lines 106-113: comma-separated values
CommaSeparated(s) ==
    IntsOrEmpty([k \in 1..Len(split(s)) |-> int(PyStr(strip(split(s)[k])))])

\* lines 103-113: json.loads of the string, else the comma-separated values
PagesOfStr(s, decoded) == IF decoded.ok THEN decoded.v ELSE CommaSeparated(s)

\* lines 99-113: pages of the value p of the key "pages"
PagesOf(p) ==
    IF p.t = "list" THEN p
    ELSE IF p.t = "str" THEN PagesOfStr(p.s, json_loads(p.s))
    ELSE PyList(<<>>)

\* lines 96-113: the value bound to pages before the coercion of line 116
PagesValue(b) ==
    IF DictHas(b.o, KeyPages) THEN PagesOf(DictGet(b.o, KeyPages))
    ELSE PyList(<<>>)

\* line 117: int(p) if not isinstance(p, int) else p
CoercePage(p) == IF IsInstanceInt(p) THEN Return(p) ELSE int(p)

\* lines 116-118, ints the result of line 117 for each page: the integers,
\* or the first exception raised
CoercedOrRaised(ints) ==
    IF \E k \in 1..Len(ints) : ~ints[k].ok
    THEN Raise(ints[CHOOSE k \in 1..Len(ints) :
                        ~ints[k].ok /\ \A j \in 1..(k - 1) : ints[j].ok].exc)
    ELSE Return([k \in 1..Len(ints) |-> IntValue(ints[k].v)])

\* lines 116-118, it the values the loop over pages visits
CoerceIterated(it) ==
    IF ~it.ok THEN it
    ELSE CoercedOrRaised([k \in 1..Len(it.v) |-> CoercePage(it.v[k])])

\* lines 116-118: every page as an integer; v is the sequence of integers
CoercePages(pages) == CoerceIterated(Iterate(pages))

\* lines 120-127: the dictionary appended for element b
Boundary(b, pages, confidence) ==
    [product |-> DictGetDefault(b.o, KeyProduct, UnnamedProduct),
     pages |-> pages,
     confidence |-> confidence,
     reason |-> DictGetDefault(b.o, KeyReason, PyStr(<<>>))]

\* lines 116-127: the element with its coerced pages, v what it appends
ElementWithPages(b, confidence, pages) ==
    IF ~pages.ok THEN pages
    ELSE Return(<<Boundary(b, pages.v, confidence)>>)

\* lines 93-127: the element with its confidence
ElementWithConfidence(b, confidence, confidence_threshold) ==
    IF AboveThreshold(confidence, confidence_threshold)
    THEN ElementWithPages(b, confidence, CoercePages(PagesValue(b)))
    ELSE Return(<<>>)

\* lines 81-127: one pass of the loop body, v what it appends to normalized
Element(b, confidence_threshold) ==
    IF b.t # "dict" THEN Return(<<>>)
    ELSE ElementWithConfidence(b, Confidence(b), confidence_threshold)

\* the sequences results[k].v, each put in front of the ones before it
RECURSIVE Appended_Reversed(_)
Appended_Reversed(results) ==
    IF results = <<>> THEN <<>>
    ELSE Appended_Reversed(Tail(results)) \o results[1].v

\* the concatenation of the sequences results[k].v
RECURSIVE Appended(_)
Appended(results) ==
    IF results = <<>> THEN <<>>
    ELSE results[1].v \o Appended(Tail(results))

\* lines 79-129, results the outcome of the loop body for each element:
\* the first exception ends the loop, else normalized is returned
Normalized(results) ==
    IF \E k \in 1..Len(results) : ~results[k].ok
    THEN Raise(results[CHOOSE k \in 1..Len(results) :
                           ~results[k].ok /\ \A j \in 1..(k - 1) : results[j].ok].exc)
    ELSE Return(Appended(results))

\* lines 79-129: the loop over the decoded array
Normalize(boundaries, confidence_threshold) ==
    Normalized([k \in 1..Len(boundaries) |->
                   Element(boundaries[k], confidence_threshold)])

\* lines 76-129: the decoded array, normalized
NormalizeDecoded(decoded, confidence_threshold) ==
    IF ~decoded.ok THEN Raise("JSONDecodeError")
    ELSE Normalize(decoded.v.a, confidence_threshold)

\* the slice as response[start_idx:], the last "]" is not used
ParseBetween_ToEnd(s, start_idx, end_idx, confidence_threshold) ==
    IF start_idx >= 0 /\ end_idx > start_idx
    THEN NormalizeDecoded(json_loads(Slice(s, start_idx, Len(s))),
                          confidence_threshold)
    ELSE Return(<<>>)

\* lines 74-133: the text s with its first "[" and last "]"
ParseBetween(s, start_idx, end_idx, confidence_threshold) ==
    IF start_idx >= 0 /\ end_idx > start_idx
    THEN NormalizeDecoded(json_loads(Slice(s, start_idx, end_idx + 1)),
                          confidence_threshold)
    ELSE Return(<<>>)

\* lines 70-133: the body of the try statement
ParseBody(response, confidence_threshold) ==
    IF response.t # "str" THEN Raise("AttributeError")
    ELSE ParseBetween(response.s, find(response.s, "["), rfind(response.s, "]"),
                      confidence_threshold)

\* the handler as "except ValueError": TypeError and AttributeError escape
Handled_ValueErrorOnly(exc) == exc \in {"ValueError", "JSONDecodeError"}

\* line 134: the exception classes the handler catches (except Exception)
Handled(exc) == TRUE

\* lines 134-137, r the outcome of the try body: [raised, value];
\* raised = TRUE when an exception leaves the call
HandleExceptions(r) ==
    IF r.ok THEN [raised |-> FALSE, value |-> r.v]
    ELSE IF Handled(r.exc) THEN [raised |-> FALSE, value |-> <<>>]
    ELSE [raised |-> TRUE, value |-> <<>>]

\* lines 69-137
_parse_boundaries(response, confidence_threshold) ==
    HandleExceptions(ParseBody(response, confidence_threshold))

(***************************************************************************)
(* Pipeline.extract_sheets_to_pdf, pipeline_modal.py lines 256-354:        *)
(* the pure parts of one loop iteration                                    *)
(***************************************************************************)
\* sorted(): insertion of x into the ascending sequence s
InsertSorted(x, s) ==
    LET k == Cardinality({j \in 1..Len(s) : s[j] <= x})
    IN  SubSeq(s, 1, k) \o <<x>> \o SubSeq(s, k + 1, Len(s))

RECURSIVE sorted(_)
sorted(s) ==
    IF s = <<>> THEN <<>>
    ELSE InsertSorted(s[Len(s)], sorted(SubSeq(s, 1, Len(s) - 1)))

\* the condition as p > 0 only: pages beyond the document pass
InRange_NoUpperBound(p, n) == p > 0

\* line 301, the condition of the comprehension: p > 0 and p <= len(doc)
InRange(p, n) == p > 0 /\ p <= n

\* line 301, the comprehension: the 0-indexed pages that pass the condition
RECURSIVE ZeroIndexed(_, _)
ZeroIndexed(page_list, n) ==
    IF page_list = <<>> THEN <<>>
    ELSE (IF InRange(page_list[1], n) THEN <<page_list[1] - 1>> ELSE <<>>)
         \o ZeroIndexed(Tail(page_list), n)

\* line 301 without sorted()
ValidPages_Unsorted(page_list, n) == ZeroIndexed(page_list, n)

\* line 301: sorted([p - 1 for p in page_list if p > 0 and p <= len(doc)])
ValidPages(page_list, n) == sorted(ZeroIndexed(page_list, n))

Letters ==
    {"a", "b", "c", "d", "e", "f", "g", "h", "i", "j", "k", "l", "m",
     "n", "o", "p", "q", "r", "s", "t", "u", "v", "w", "x", "y", "z",
     "A", "B", "C", "D", "E", "F", "G", "H", "I", "J", "K", "L", "M",
     "N", "O", "P", "Q", "R", "S", "T", "U", "V", "W", "X", "Y", "Z"}

\* c.isalnum() for one character
isalnum(c) == c \in Letters \/ IsDigit(c)

\* str.replace(" ", "_")
ReplaceSpaces(s) == [k \in 1..Len(s) |-> IF s[k] = " " THEN "_" ELSE s[k]]

\* line 322: the length above which a name is truncated
MaxNameLen == 50

\* line 323: the characters kept in front of "..."
KeptNameLen == 47

\* c.isalnum() for a str of any length
IsAlnumStr(s) == s # <<>> /\ \A k \in 1..Len(s) : isalnum(s[k])

\* c in " -_" for a str c: c is a substring of " -_"
InSpaceHyphenUnderscore(s) ==
    s \in {<<>>, <<" ">>, <<"-">>, <<"_">>, <<" ", "-">>, <<"-", "_">>,
           <<" ", "-", "_">>}

\* line 317, the items the generator draws from product_name: the
\* characters of a str, the members of a list, the keys of a dict;
\* TypeError for a value that cannot be iterated
Items(product_name) ==
    IF product_name.t = "str"
    THEN Return([k \in 1..Len(product_name.s) |-> PyStr(<<product_name.s[k]>>)])
    ELSE IF product_name.t = "list" THEN Return(product_name.a)
    ELSE IF product_name.t = "dict"
    THEN Return([k \in 1..Len(product_name.o) |-> PyStr(product_name.o[k][1])])
    ELSE Raise("TypeError")

\* line 317, for one item c: c or "_"; AttributeError when c has no isalnum
NameItem(c) ==
    IF c.t # "str" THEN Raise("AttributeError")
    ELSE IF IsAlnumStr(c.s) \/ InSpaceHyphenUnderscore(c.s) THEN Return(c.s)
    ELSE Return(<<"_">>)

\* lines 316-319 with items the outcome of iterating product_name: the
\* joined items, stripped, spaces replaced
Joined(items) ==
    IF ~items.ok THEN items
    ELSE IF \E k \in 1..Len(items.v) : ~NameItem(items.v[k]).ok
    THEN Raise("AttributeError")
    ELSE Return(ReplaceSpaces(strip(
             Appended([k \in 1..Len(items.v) |-> NameItem(items.v[k])]))))

\* lines 322-323 left out: the name is never truncated
Truncated_Never(name) == name

\* lines 322-323, name the outcome of lines 316-319
Truncated(name) ==
    IF name.ok /\ Len(name.v) > MaxNameLen
    THEN Return(SubSeq(name.v, 1, KeptNameLen) \o <<".", ".", ".">>)
    ELSE name

\* lines 316-323: the sanitized product name, as [ok, v, exc]
safe_name(product_name) == Truncated(Joined(Items(product_name)))

\* str(n) for an integer n
RECURSIVE NatToStr(_)
NatToStr(n) ==
    IF n < 10 THEN <<Digits[n + 1]>>
    ELSE NatToStr(n \div 10) \o <<Digits[(n % 10) + 1]>>

IntToStr(n) == IF n < 0 THEN <<"-">> \o NatToStr(-n) ELSE NatToStr(n)

\* format(x, ".2f"): x rounded to hundredths, ties to even
Hundredths(x) ==
    LET a == (IF x.n < 0 THEN -x.n ELSE x.n) * 100
        q == a \div x.d
        r == a % x.d
    IN  IF 2 * r > x.d THEN q + 1
        ELSE IF 2 * r = x.d THEN q + (q % 2)
        ELSE q

Format2f(x) ==
    LET h == Hundredths(x)
    IN  (IF x.n < 0 THEN <<"-">> ELSE <<>>)
        \o NatToStr(h \div 100)
        \o <<".", Digits[((h \div 10) % 10) + 1], Digits[(h % 10) + 1]>>

\* page_range without the case of line 327
page_range_AlwaysRange(page_list) ==
    <<"p">> \o IntToStr(page_list[1] + 1)
    \o <<"-">> \o IntToStr(page_list[Len(page_list)] + 1)

\* lines 326-328: page_range, of the sorted 0-indexed page_list
page_range(page_list) ==
    IF Len(page_list) = 1
    THEN <<"p">> \o IntToStr(page_list[1] + 1)
    ELSE <<"p">> \o IntToStr(page_list[1] + 1)
         \o <<"-">> \o IntToStr(page_list[Len(page_list)] + 1)

\* lines 331-332: output_filename
output_filename(sheet, page_list) ==
    <<"s", "h", "e", "e", "t", "_">> \o IntToStr(page_list[1] + 1)
    \o <<"_">> \o safe_name(sheet.product).v
    \o <<"_">> \o page_range(page_list)
    \o <<"_", "c", "o", "n", "f">> \o Format2f(sheet.confidence)
    \o <<".", "p", "d", "f">>

(***************************************************************************)
(* The replies of the external LLM service (OCRAnalyzer.process_file)      *)
(***************************************************************************)
\* the largest number of elements in the array of a reply
MaxElems == 2

\* {"product": "T22", "confidence": "0.9", "pages": "[1,2]", "reason": "header match"}
ElemT22 ==
    <<"{", "\"", "p", "r", "o", "d", "u", "c", "t", "\"", ":", " ", "\"",
      "T", "2", "2", "\"", ",", " ", "\"", "c", "o", "n", "f", "i", "d",
      "e", "n", "c", "e", "\"", ":", " ", "\"", "0", ".", "9", "\"", ",",
      " ", "\"", "p", "a", "g", "e", "s", "\"", ":", " ", "\"", "[", "1",
      ",", "2", "]", "\"", ",", " ", "\"", "r", "e", "a", "s", "o", "n",
      "\"", ":", " ", "\"", "h", "e", "a", "d", "e", "r", " ", "m", "a",
      "t", "c", "h", "\"", "}">>

\* {"product": "A", "confidence": "0.59", "pages": [3,5,4]}
ElemA ==
    <<"{", "\"", "p", "r", "o", "d", "u", "c", "t", "\"", ":", " ", "\"",
      "A", "\"", ",", " ", "\"", "c", "o", "n", "f", "i", "d", "e", "n",
      "c", "e", "\"", ":", " ", "\"", "0", ".", "5", "9", "\"", ",", " ",
      "\"", "p", "a", "g", "e", "s", "\"", ":", " ", "[", "3", ",", "5",
      ",", "4", "]", "}">>

\* {"product": "B", "confidence": "0.6", "pages": [2,2,3]}
ElemB ==
    <<"{", "\"", "p", "r", "o", "d", "u", "c", "t", "\"", ":", " ", "\"",
      "B", "\"", ",", " ", "\"", "c", "o", "n", "f", "i", "d", "e", "n",
      "c", "e", "\"", ":", " ", "\"", "0", ".", "6", "\"", ",", " ", "\"",
      "p", "a", "g", "e", "s", "\"", ":", " ", "[", "2", ",", "2", ",",
      "3", "]", "}">>

\* {"product": "C", "confidence": 0.9, "pages": ["x"]}
ElemC ==
    <<"{", "\"", "p", "r", "o", "d", "u", "c", "t", "\"", ":", " ", "\"",
      "C", "\"", ",", " ", "\"", "c", "o", "n", "f", "i", "d", "e", "n",
      "c", "e", "\"", ":", " ", "0", ".", "9", ",", " ", "\"", "p", "a",
      "g", "e", "s", "\"", ":", " ", "[", "\"", "x", "\"", "]", "}">>

\* {"product": "D", "confidence": 0.9, "pages": "5"}
ElemD ==
    <<"{", "\"", "p", "r", "o", "d", "u", "c", "t", "\"", ":", " ", "\"",
      "D", "\"", ",", " ", "\"", "c", "o", "n", "f", "i", "d", "e", "n",
      "c", "e", "\"", ":", " ", "0", ".", "9", ",", " ", "\"", "p", "a",
      "g", "e", "s", "\"", ":", " ", "\"", "5", "\"", "}">>

\* {"product": "E", "pages": "7, 99"}
ElemE ==
    <<"{", "\"", "p", "r", "o", "d", "u", "c", "t", "\"", ":", " ", "\"",
      "E", "\"", ",", " ", "\"", "p", "a", "g", "e", "s", "\"", ":", " ",
      "\"", "7", ",", " ", "9", "9", "\"", "}">>

\* {"confidence": 0.8, "pages": [99]}
ElemF ==
    <<"{", "\"", "c", "o", "n", "f", "i", "d", "e", "n", "c", "e", "\"",
      ":", " ", "0", ".", "8", ",", " ", "\"", "p", "a", "g", "e", "s",
      "\"", ":", " ", "[", "9", "9", "]", "}">>

\* {"product": "G", "confidence": 0.3, "pages": ["x"]}
ElemG ==
    <<"{", "\"", "p", "r", "o", "d", "u", "c", "t", "\"", ":", " ", "\"",
      "G", "\"", ",", " ", "\"", "c", "o", "n", "f", "i", "d", "e", "n",
      "c", "e", "\"", ":", " ", "0", ".", "3", ",", " ", "\"", "p", "a",
      "g", "e", "s", "\"", ":", " ", "[", "\"", "x", "\"", "]", "}">>

\* {"product": "H", "confidence": "high", "pages": "a,b"}
ElemH ==
    <<"{", "\"", "p", "r", "o", "d", "u", "c", "t", "\"", ":", " ", "\"",
      "H", "\"", ",", " ", "\"", "c", "o", "n", "f", "i", "d", "e", "n",
      "c", "e", "\"", ":", " ", "\"", "h", "i", "g", "h", "\"", ",", " ",
      "\"", "p", "a", "g", "e", "s", "\"", ":", " ", "\"", "a", ",", "b",
      "\"", "}">>

\* {"product": "I", "confidence": 1.5, "pages": [1]}
ElemOver ==
    <<"{", "\"", "p", "r", "o", "d", "u", "c", "t", "\"", ":", " ", "\"",
      "I", "\"", ",", " ", "\"", "c", "o", "n", "f", "i", "d", "e", "n",
      "c", "e", "\"", ":", " ", "1", ".", "5", ",", " ", "\"", "p", "a",
      "g", "e", "s", "\"", ":", " ", "[", "1", "]", "}">>

\* {"product": "N", "confidence": -0.2, "pages": [1]}
ElemNegative ==
    <<"{", "\"", "p", "r", "o", "d", "u", "c", "t", "\"", ":", " ", "\"",
      "N", "\"", ",", " ", "\"", "c", "o", "n", "f", "i", "d", "e", "n",
      "c", "e", "\"", ":", " ", "-", "0", ".", "2", ",", " ", "\"", "p",
      "a", "g", "e", "s", "\"", ":", " ", "[", "1", "]", "}">>

\* {"product": null, "confidence": 0.9, "pages": [4]}
ElemNull ==
    <<"{", "\"", "p", "r", "o", "d", "u", "c", "t", "\"", ":", " ", "n",
      "u", "l", "l", ",", " ", "\"", "c", "o", "n", "f", "i", "d", "e",
      "n", "c", "e", "\"", ":", " ", "0", ".", "9", ",", " ", "\"", "p",
      "a", "g", "e", "s", "\"", ":", " ", "[", "4", "]", "}">>

\* {"product": "", "confidence": 0.9, "pages": [2]}
ElemEmptyName ==
    <<"{", "\"", "p", "r", "o", "d", "u", "c", "t", "\"", ":", " ", "\"",
      "\"", ",", " ", "\"", "c", "o", "n", "f", "i", "d", "e", "n", "c",
      "e", "\"", ":", " ", "0", ".", "9", ",", " ", "\"", "p", "a", "g",
      "e", "s", "\"", ":", " ", "[", "2", "]", "}">>

\* {"product": "A", "confidence": "0.59", "pages": [5,3]}
ElemK ==
    <<"{", "\"", "p", "r", "o", "d", "u", "c", "t", "\"", ":", " ", "\"",
      "A", "\"", ",", " ", "\"", "c", "o", "n", "f", "i", "d", "e", "n",
      "c", "e", "\"", ":", " ", "\"", "0", ".", "5", "9", "\"", ",", " ",
      "\"", "p", "a", "g", "e", "s", "\"", ":", " ", "[", "5", ",", "3",
      "]", "}">>

\* {"product": "M", "confidence": 0.55, "pages": ["x"]}
ElemM ==
    <<"{", "\"", "p", "r", "o", "d", "u", "c", "t", "\"", ":", " ", "\"",
      "M", "\"", ",", " ", "\"", "c", "o", "n", "f", "i", "d", "e", "n",
      "c", "e", "\"", ":", " ", "0", ".", "5", "5", ",", " ", "\"", "p",
      "a", "g", "e", "s", "\"", ":", " ", "[", "\"", "x", "\"", "]", "}">>

\* {"product": "Valve DN-50 (PN16) / stainless steel, flanged ends.", "confidence": 0.9, "pages": [1]}
ElemLong ==
    <<"{", "\"", "p", "r", "o", "d", "u", "c", "t", "\"", ":", " ", "\"",
      "V", "a", "l", "v", "e", " ", "D", "N", "-", "5", "0", " ", "(", "P",
      "N", "1", "6", ")", " ", "/", " ", "s", "t", "a", "i", "n", "l", "e",
      "s", "s", " ", "s", "t", "e", "e", "l", ",", " ", "f", "l", "a", "n",
      "g", "e", "d", " ", "e", "n", "d", "s", ".", "\"", ",", " ", "\"",
      "c", "o", "n", "f", "i", "d", "e", "n", "c", "e", "\"", ":", " ",
      "0", ".", "9", ",", " ", "\"", "p", "a", "g", "e", "s", "\"", ":",
      " ", "[", "1", "]", "}">>

\* {"product": "Pump P-7 with motor and base frame, cast iron 2024", "confidence": 0.9, "pages": [2]}
ElemFifty ==
    <<"{", "\"", "p", "r", "o", "d", "u", "c", "t", "\"", ":", " ", "\"",
      "P", "u", "m", "p", " ", "P", "-", "7", " ", "w", "i", "t", "h", " ",
      "m", "o", "t", "o", "r", " ", "a", "n", "d", " ", "b", "a", "s", "e",
      " ", "f", "r", "a", "m", "e", ",", " ", "c", "a", "s", "t", " ", "i",
      "r", "o", "n", " ", "2", "0", "2", "4", "\"", ",", " ", "\"", "c",
      "o", "n", "f", "i", "d", "e", "n", "c", "e", "\"", ":", " ", "0",
      ".", "9", ",", " ", "\"", "p", "a", "g", "e", "s", "\"", ":", " ",
      "[", "2", "]", "}">>

\* {"product": ["T", "22"], "confidence": 0.9, "pages": [1]}
ElemNameList ==
    <<"{", "\"", "p", "r", "o", "d", "u", "c", "t", "\"", ":", " ", "[",
      "\"", "T", "\"", ",", " ", "\"", "2", "2", "\"", "]", ",", " ", "\"",
      "c", "o", "n", "f", "i", "d", "e", "n", "c", "e", "\"", ":", " ",
      "0", ".", "9", ",", " ", "\"", "p", "a", "g", "e", "s", "\"", ":",
      " ", "[", "1", "]", "}">>

\* {"product": {"T22": 1}, "confidence": 0.9, "pages": [1]}
ElemNameDict ==
    <<"{", "\"", "p", "r", "o", "d", "u", "c", "t", "\"", ":", " ", "{",
      "\"", "T", "2", "2", "\"", ":", " ", "1", "}", ",", " ", "\"", "c",
      "o", "n", "f", "i", "d", "e", "n", "c", "e", "\"", ":", " ", "0",
      ".", "9", ",", " ", "\"", "p", "a", "g", "e", "s", "\"", ":", " ",
      "[", "1", "]", "}">>

\* {"product": [22], "confidence": 0.9, "pages": [1]}
ElemNameInts ==
    <<"{", "\"", "p", "r", "o", "d", "u", "c", "t", "\"", ":", " ", "[",
      "2", "2", "]", ",", " ", "\"", "c", "o", "n", "f", "i", "d", "e",
      "n", "c", "e", "\"", ":", " ", "0", ".", "9", ",", " ", "\"", "p",
      "a", "g", "e", "s", "\"", ":", " ", "[", "1", "]", "}">>

\* {"product": ["A 1", " -", "", "x"], "confidence": 0.9, "pages": [2]}
ElemNameParts ==
    <<"{", "\"", "p", "r", "o", "d", "u", "c", "t", "\"", ":", " ", "[",
      "\"", "A", " ", "1", "\"", ",", " ", "\"", " ", "-", "\"", ",", " ",
      "\"", "\"", ",", " ", "\"", "x", "\"", "]", ",", " ", "\"", "c", "o",
      "n", "f", "i", "d", "e", "n", "c", "e", "\"", ":", " ", "0", ".",
      "9", ",", " ", "\"", "p", "a", "g", "e", "s", "\"", ":", " ", "[",
      "2", "]", "}">>

\* {"product": [], "confidence": 0.9, "pages": [1]}
ElemNameEmpty ==
    <<"{", "\"", "p", "r", "o", "d", "u", "c", "t", "\"", ":", " ", "[",
      "]", ",", " ", "\"", "c", "o", "n", "f", "i", "d", "e", "n", "c",
      "e", "\"", ":", " ", "0", ".", "9", ",", " ", "\"", "p", "a", "g",
      "e", "s", "\"", ":", " ", "[", "1", "]", "}">>

\* 7
ElemNumber ==
    <<"7">>

\* Here you go:\n
PrefixHere ==
    <<"H", "e", "r", "e", " ", "y", "o", "u", " ", "g", "o", ":", "\n">>

\* \nThanks!
SuffixThanks ==
    <<"\n", "T", "h", "a", "n", "k", "s", "!">>

\* a] 
PrefixClosing ==
    <<"a", "]", " ">>

\*  [b
SuffixOpening ==
    <<" ", "[", "b">>

\* (see [3])
SuffixBracketed ==
    <<" ", "(", "s", "e", "e", " ", "[", "3", "]", ")">>

\* No boundaries found
RawNoBoundaries ==
    <<"N", "o", " ", "b", "o", "u", "n", "d", "a", "r", "i", "e", "s", " ",
      "f", "o", "u", "n", "d">>

\* [{"product": "A"}
RawUnclosed ==
    <<"[", "{", "\"", "p", "r", "o", "d", "u", "c", "t", "\"", ":", " ",
      "\"", "A", "\"", "}">>

\* ] none [
RawReversed ==
    <<"]", " ", "n", "o", "n", "e", " ", "[">>

\* [{"product": }]
RawInvalidJson ==
    <<"[", "{", "\"", "p", "r", "o", "d", "u", "c", "t", "\"", ":", " ",
      "}", "]">>

\* [note] [7]
RawBracketedPrefix ==
    <<"[", "n", "o", "t", "e", "]", " ", "[", "7", "]">>

Elements ==
    <<ElemT22, ElemA, ElemB, ElemC, ElemD, ElemE, ElemF, ElemG, ElemH,
      ElemNumber>>

\* the text of the JSON array whose elements are the texts es
RECURSIVE JoinElements(_)
JoinElements(es) ==
    IF es = <<>> THEN <<>>
    ELSE IF Len(es) = 1 THEN es[1]
    ELSE es[1] \o <<",", " ">> \o JoinElements(Tail(es))

ArrayText(es) == <<"[">> \o JoinElements(es) \o <<"]">>

Arrays ==
    UNION {{ArrayText([k \in 1..n |-> Elements[choice[k]]]) :
                choice \in [1..n -> 1..Len(Elements)]} : n \in 0..MaxElems}

\* the prose around the array: <<prefix, suffix>>
Wrappings ==
    {<<<<>>, <<>>>>, <<PrefixHere, SuffixThanks>>,
     <<PrefixClosing, SuffixOpening>>, <<<<>>, SuffixBracketed>>}

\* arrays of the elements above that the service may also reply, unwrapped
ScenarioArrays ==
    {ArrayText(<<ElemOver>>), ArrayText(<<ElemNegative, ElemOver>>),
     ArrayText(<<ElemNull>>), ArrayText(<<ElemT22, ElemNull, ElemD>>),
     ArrayText(<<ElemEmptyName>>), ArrayText(<<ElemA, ElemK>>),
     ArrayText(<<ElemK, ElemA>>), ArrayText(<<ElemT22, ElemM>>),
     ArrayText(<<ElemLong, ElemFifty>>), ArrayText(<<ElemNameList>>),
     ArrayText(<<ElemNameDict, ElemNameList>>), ArrayText(<<ElemNameInts>>),
     ArrayText(<<ElemNameParts, ElemNameEmpty>>)}

RawReplies ==
    {RawNoBoundaries, RawUnclosed, RawReversed, RawInvalidJson,
     RawBracketedPrefix}

\* a reply as [prefix, body, suffix]; str = FALSE: the reply has no text
NoReply == [prefix |-> <<>>, body |-> <<>>, suffix |-> <<>>, str |-> FALSE]

Replies ==
    {[prefix |-> w[1], body |-> a, suffix |-> w[2], str |-> TRUE] :
        w \in Wrappings, a \in Arrays}
    \cup {[prefix |-> <<>>, body |-> a, suffix |-> <<>>, str |-> TRUE] :
            a \in ScenarioArrays}
    \cup {[prefix |-> r, body |-> <<>>, suffix |-> <<>>, str |-> TRUE] :
            r \in RawReplies}
    \cup {NoReply}

\* chat_response.choices[0].message.content
ReplyValue(reply) ==
    IF reply.str THEN PyStr(reply.prefix \o reply.body \o reply.suffix)
    ELSE PyNone

Thresholds == {PyFloat(5, 10), PyFloat(6, 10)}

\* thresholds for the calls of _parse_boundaries alone, on both sides of the
\* default confidence 0.7
ParseThresholds == Thresholds \cup {PyFloat(7, 10), PyFloat(8, 10)}

PageCounts == {5, 10}

(***************************************************************************)
(* Paths: os.path and pathlib on "/"-separated paths of files (no "." or   *)
(* ".." as last component, no trailing and no doubled "/")                 *)
(***************************************************************************)
\* os.path.basename(p)
basename(p) == SubSeq(p, rfind(p, "/") + 2, Len(p))

\* os.path.join(a, b)
join(a, b) ==
    IF b # <<>> /\ b[1] = "/" THEN b
    ELSE IF a = <<>> \/ a[Len(a)] = "/" THEN a \o b
    ELSE a \o <<"/">> \o b

\* os.path.splitext(p)[0] with sepIndex and dotIndex the 0-based positions
\* of the last "/" and the last ".": the extension starts at the last dot
\* of the last component unless only dots precede it there
SplitRoot(p, sepIndex, dotIndex) ==
    IF dotIndex > sepIndex
       /\ \E k \in (sepIndex + 1)..(dotIndex - 1) : p[k + 1] # "."
    THEN Slice(p, 0, dotIndex)
    ELSE p

\* os.path.splitext(p)[0]
splitext_root(p) == SplitRoot(p, rfind(p, "/"), rfind(p, "."))

\* PurePath.stem of the name with dot the 0-based position of its last "."
StemOf(name, dot) ==
    IF 0 < dot /\ dot < Len(name) - 1 THEN Slice(name, 0, dot) ELSE name

\* Path(p).stem
stem(p) == StemOf(basename(p), rfind(basename(p), "."))

\* Config.OUTPUT_DIR: "../data/output"
OUTPUT_DIR ==
    <<".", ".", "/", "d", "a", "t", "a", "/", "o", "u", "t", "p", "u", "t">>

\* self.output_dir: "results"
DefaultOutputDir ==
    <<"r", "e", "s", "u", "l", "t", "s">>

\* enhanced_
EnhancedPrefix ==
    <<"e", "n", "h", "a", "n", "c", "e", "d", "_">>

\* _analysis.json
AnalysisSuffix ==
    <<"_", "a", "n", "a", "l", "y", "s", "i", "s", ".", "j", "s", "o", "n">>

\* _sheets
SheetsSuffix ==
    <<"_", "s", "h", "e", "e", "t", "s">>

\* the stamped copy add_page_identifiers is told to write (main, line 157)
EnhancedPath(catalog_pdf_path) ==
    join(OUTPUT_DIR, EnhancedPrefix \o basename(catalog_pdf_path))

\* the analysis JSON (main, line 166)
AnalysisPath(catalog_pdf_path) ==
    splitext_root(catalog_pdf_path) \o AnalysisSuffix

\* the directory of the sheets of the catalog (lines 281-282)
output_subdir(output_dir, catalog_pdf_path) ==
    join(output_dir, stem(catalog_pdf_path) \o SheetsSuffix)

\* in/cat.pdf
CatalogPath ==
    <<"i", "n", "/", "c", "a", "t", ".", "p", "d", "f">>

\* old/cat.pdf
CatalogElsewhere ==
    <<"o", "l", "d", "/", "c", "a", "t", ".", "p", "d", "f">>

\* in/cat.PDF
CatalogUpperCase ==
    <<"i", "n", "/", "c", "a", "t", ".", "P", "D", "F">>

\* ../data/output/enhanced_cat.pdf
CatalogStamped ==
    <<".", ".", "/", "d", "a", "t", "a", "/", "o", "u", "t", "p", "u", "t",
      "/", "e", "n", "h", "a", "n", "c", "e", "d", "_", "c", "a", "t", ".",
      "p", "d", "f">>

\* in/dog.pdf
CatalogOther ==
    <<"i", "n", "/", "d", "o", "g", ".", "p", "d", "f">>

\* results/sheet_1_T22_p1-2_conf0.90_sheets/sheet_1_T22_p1-2_conf0.90.pdf:
\* a sheet of a former run, given as the catalog
CatalogSheet ==
    <<"r", "e", "s", "u", "l", "t", "s", "/", "s", "h", "e", "e", "t", "_",
      "1", "_", "T", "2", "2", "_", "p", "1", "-", "2", "_", "c", "o", "n",
      "f", "0", ".", "9", "0", "_", "s", "h", "e", "e", "t", "s", "/", "s",
      "h", "e", "e", "t", "_", "1", "_", "T", "2", "2", "_", "p", "1", "-",
      "2", "_", "c", "o", "n", "f", "0", ".", "9", "0", ".", "p", "d", "f">>

\* the PDF files a run may be given
CatalogPaths ==
    {CatalogPath, CatalogElsewhere, CatalogUpperCase, CatalogStamped,
     CatalogOther, CatalogSheet}

(***************************************************************************)
(* State of one call of a public method of a Pipeline object, and of two   *)
(* calls.  A document handle is "unopened", "open", "closed" (close() was  *)
(* called) or "dropped" (the function returned without calling close();    *)
(* the handle is left to the garbage collector).                           *)
(*                                                                         *)
(* pc = "stamp" is the object after __init__, before any call.  From there *)
(* extract_sheets_to_pdf runs through "analyze", "save_analysis",          *)
(* "process_file", "parse", "sheets", "loop" to "done"; extract_sheets     *)
(* alone is the same run up to "sheets", where it returns;                 *)
(* extract_and_print ends in "printed"; interactive_document_chat of the   *)
(* analyzer goes through "chat" to "chat_done".  "raised" is the end by    *)
(* an exception.  No method reads self.last_response or                    *)
(* self.tech_sheet_pages, the fields a former call has written: a later    *)
(* call on the same object meets the former only in the files, which the   *)
(* two calls of the last specification share.                              *)
(***************************************************************************)
VARIABLES
    confidence_threshold,   \* self.confidence_threshold
    total_pages,            \* len(doc), the page count of the catalog
    pdf_path,               \* the argument pdf_path of the method called
    pc,                     \* position of the run
    exc,                    \* the exception that left the run, "none" if none
    stamp_doc,              \* the handle doc of add_page_identifiers
    analysis_doc,           \* the handle doc of analyze_pdf_structure
    enhanced_pdf_path,      \* the stamped copy written, <<>> before
    requests,               \* the requests sent to the LLM service, each
                            \* one upload and one chat completion
    llm,                    \* the reply of the LLM service, as composed
    response,               \* self.last_response
    parse_outcome,          \* how the call of _parse_boundaries ended
    sheets,                 \* the list extract_sheets returns
    tech_sheet_pages,       \* self.tech_sheet_pages
    doc_path,               \* the file opened at line 286, <<>> before
    doc_open,               \* the handle doc of line 286 is open
    new_doc,                \* the handle new_doc of line 309
    i,                      \* position of the loop of line 290 (from 1)
    extracted_paths,        \* extracted_paths
    files,                  \* the sheet files written: [path, pages]
    saved,                  \* the new_doc.save calls that succeeded, in order
    output_dirs,            \* the directories os.makedirs has made sure of
    second_parse,           \* what a second call of _parse_boundaries on
                            \* self.last_response gave: [done, raised, value]
    catalogs,               \* two runs: the PDF file of each run
    stages,                 \* two runs: the position of each run
    writes                  \* two runs: the files written: [run, by, path]

one_run ==
    <<confidence_threshold, total_pages, pdf_path, pc, exc, stamp_doc,
      analysis_doc, enhanced_pdf_path, requests, llm, response, parse_outcome,
      sheets, tech_sheet_pages, doc_path, doc_open, new_doc, i,
      extracted_paths, files, saved, output_dirs, second_parse>>

two_runs == <<catalogs, stages, writes>>

vars == <<one_run, output_dirs, two_runs>>

\* no run of the other kind is under way
NoTwoRuns == catalogs = <<>> /\ stages = <<>> /\ writes = {}

\* _parse_boundaries was not called a second time
NotParsedAgain == [done |-> FALSE, raised |-> FALSE, value |-> <<>>]

\* the state of a pipeline object before a method is called
Constructed ==
    /\ pc = "stamp"
    /\ exc = "none"
    /\ stamp_doc = "unopened"
    /\ analysis_doc = "unopened"
    /\ enhanced_pdf_path = <<>>
    /\ requests = 0
    /\ llm = NoReply
    /\ response = PyNone
    /\ parse_outcome = "none"
    /\ sheets = <<>>
    /\ tech_sheet_pages = {}
    /\ doc_path = <<>>
    /\ doc_open = FALSE
    /\ new_doc = "unopened"
    /\ i = 0
    /\ extracted_paths = <<>>
    /\ files = {}
    /\ saved = <<>>
    /\ output_dirs = {DefaultOutputDir}
    /\ second_parse = NotParsedAgain

\* Pipeline.__init__ (lines 44-49) and the catalog the run is given
Init ==
    /\ confidence_threshold \in Thresholds
    /\ total_pages \in PageCounts
    /\ pdf_path = CatalogPath
    /\ Constructed
    /\ NoTwoRuns

\* document_processor.main, lines 157-160: add_page_identifiers opens the
\* catalog, stamps the pages, saves the copy and returns without close()
Stamp ==
    /\ pc = "stamp"
    /\ stamp_doc' = "dropped"
    /\ enhanced_pdf_path' = EnhancedPath(pdf_path)
    /\ pc' = "analyze"
    /\ UNCHANGED <<confidence_threshold, total_pages, pdf_path, exc,
                   analysis_doc, requests, llm, response, parse_outcome,
                   sheets, tech_sheet_pages, doc_path, doc_open, new_doc, i,
                   extracted_paths, files, saved, output_dirs, second_parse, two_runs>>

\* the failure of fitz.open is swallowed and the run goes on
StampOpenFails_Swallowed ==
    /\ pc = "stamp"
    /\ exc' = "FileNotFoundError"
    /\ pc' = "process_file"
    /\ UNCHANGED <<confidence_threshold, total_pages, pdf_path, stamp_doc,
                   analysis_doc, enhanced_pdf_path, requests, llm, response,
                   parse_outcome, sheets, tech_sheet_pages, doc_path, doc_open,
                   new_doc, i, extracted_paths, files, saved, output_dirs, second_parse, two_runs>>

\* add_page_identifiers, line 123: fitz.open raises; nothing on the way up
\* to the caller of extract_sheets_to_pdf catches it
StampOpenFails ==
    /\ pc = "stamp"
    /\ exc' = "FileNotFoundError"
    /\ pc' = "raised"
    /\ UNCHANGED <<confidence_threshold, total_pages, pdf_path, stamp_doc,
                   analysis_doc, enhanced_pdf_path, requests, llm, response,
                   parse_outcome, sheets, tech_sheet_pages, doc_path,
                   doc_open, new_doc, i, extracted_paths, files, saved, output_dirs, second_parse, two_runs>>

\* document_processor.main, line 163: analyze_pdf_structure opens the
\* stamped copy, reads the pages and returns without close()
Analyze ==
    /\ pc = "analyze"
    /\ analysis_doc' = "dropped"
    /\ pc' = "save_analysis"
    /\ UNCHANGED <<confidence_threshold, total_pages, pdf_path, exc,
                   stamp_doc, enhanced_pdf_path, requests, llm, response,
                   parse_outcome, sheets, tech_sheet_pages, doc_path,
                   doc_open, new_doc, i, extracted_paths, files, saved, output_dirs, second_parse, two_runs>>

\* document_processor.main, lines 166-180: write the analysis JSON
SaveAnalysis ==
    /\ pc = "save_analysis"
    /\ pc' = "process_file"
    /\ UNCHANGED <<confidence_threshold, total_pages, pdf_path, exc,
                   stamp_doc, analysis_doc, enhanced_pdf_path, requests, llm,
                   response, parse_outcome, sheets, tech_sheet_pages,
                   doc_path, doc_open, new_doc, i, extracted_paths, files,
                   saved, output_dirs, second_parse, two_runs>>

\* the LLM request is sent before the page metadata is built
ProcessFile_BeforeAnalysis ==
    /\ pc \in {"analyze", "process_file"}
    /\ \E reply \in Replies :
        /\ llm' = reply
        /\ response' = ReplyValue(reply)
    /\ requests' = requests + 1
    /\ pc' = "parse"
    /\ UNCHANGED <<confidence_threshold, total_pages, pdf_path, exc,
                   stamp_doc, analysis_doc, enhanced_pdf_path, parse_outcome,
                   sheets, tech_sheet_pages, doc_path, doc_open, new_doc, i,
                   extracted_paths, files, saved, output_dirs, second_parse, two_runs>>

\* extract_sheets, lines 182-185: the LLM request returns a reply
ProcessFile ==
    /\ pc = "process_file"
    /\ \E reply \in Replies :
        /\ llm' = reply
        /\ response' = ReplyValue(reply)
    /\ requests' = requests + 1
    /\ pc' = "parse"
    /\ UNCHANGED <<confidence_threshold, total_pages, pdf_path, exc,
                   stamp_doc, analysis_doc, enhanced_pdf_path, parse_outcome,
                   sheets, tech_sheet_pages, doc_path, doc_open, new_doc, i,
                   extracted_paths, files, saved, output_dirs, second_parse, two_runs>>

\* lines 190-194: the pages of all the sheets
PagesOfSheets(sh) ==
    UNION {{sh[k].pages[j] : j \in 1..Len(sh[k].pages)} : k \in 1..Len(sh)}

\* lines 187-196 with r the outcome of _parse_boundaries
ParsedAs(r) ==
    IF r.raised
    THEN /\ parse_outcome' = "raised"
         /\ pc' = "raised"
         /\ exc' = "Exception"
         /\ UNCHANGED <<sheets, tech_sheet_pages>>
    ELSE /\ parse_outcome' = "returned"
         /\ pc' = "sheets"
         /\ sheets' = r.value
         /\ tech_sheet_pages' = PagesOfSheets(r.value)
         /\ UNCHANGED exc

\* the parse leaves the threshold of the pipeline at 1.0
ParseResponse_RaisesThreshold ==
    /\ pc = "parse"
    /\ ParsedAs(_parse_boundaries(response, confidence_threshold))
    /\ confidence_threshold' = PyFloat(1, 1)
    /\ UNCHANGED <<total_pages, pdf_path, stamp_doc,
                   analysis_doc, enhanced_pdf_path, requests, llm, response,
                   doc_path, doc_open, new_doc, i, extracted_paths, files,
                   saved, output_dirs, second_parse, two_runs>>

\* extract_sheets, lines 187-196: parse the reply, collect the pages
ParseResponse ==
    /\ pc = "parse"
    /\ ParsedAs(_parse_boundaries(response, confidence_threshold))
    /\ UNCHANGED <<confidence_threshold, total_pages, pdf_path, stamp_doc,
                   analysis_doc, enhanced_pdf_path, requests, llm, response,
                   doc_path, doc_open, new_doc, i, extracted_paths, files,
                   saved, output_dirs, second_parse, two_runs>>

\* no sheets: the request is sent once more before giving up
ReturnEmpty_Retries ==
    /\ pc = "sheets"
    /\ sheets = <<>>
    /\ pc' = IF requests < 2 THEN "process_file" ELSE "done"
    /\ UNCHANGED <<confidence_threshold, total_pages, pdf_path, exc,
                   stamp_doc, analysis_doc, enhanced_pdf_path, requests, llm,
                   response, parse_outcome, sheets, tech_sheet_pages,
                   doc_path, doc_open, new_doc, i, extracted_paths, files,
                   saved, output_dirs, second_parse, two_runs>>

\* lines 275-278: no sheets, return []
ReturnEmpty ==
    /\ pc = "sheets"
    /\ sheets = <<>>
    /\ pc' = "done"
    /\ UNCHANGED <<confidence_threshold, total_pages, pdf_path, exc,
                   stamp_doc, analysis_doc, enhanced_pdf_path, requests, llm,
                   response, parse_outcome, sheets, tech_sheet_pages,
                   doc_path, doc_open, new_doc, i, extracted_paths, files,
                   saved, output_dirs, second_parse, two_runs>>

\* the directory is made and the PDF opened whatever the sheets
OpenDocument_Always ==
    /\ pc = "sheets"
    /\ output_dirs' =
          output_dirs \cup {output_subdir(DefaultOutputDir, pdf_path)}
    /\ doc_path' = pdf_path
    /\ doc_open' = TRUE
    /\ i' = 1
    /\ pc' = "loop"
    /\ UNCHANGED <<confidence_threshold, total_pages, pdf_path, exc,
                   stamp_doc, analysis_doc, enhanced_pdf_path, requests, llm,
                   response, parse_outcome, sheets, tech_sheet_pages,
                   new_doc, extracted_paths, files, saved, second_parse, two_runs>>

\* lines 280-287: create the output directory, open the PDF
OpenDocument ==
    /\ pc = "sheets"
    /\ sheets # <<>>
    /\ output_dirs' =
          output_dirs \cup {output_subdir(DefaultOutputDir, pdf_path)}
    /\ doc_path' = pdf_path
    /\ doc_open' = TRUE
    /\ i' = 1
    /\ pc' = "loop"
    /\ UNCHANGED <<confidence_threshold, total_pages, pdf_path, exc,
                   stamp_doc, analysis_doc, enhanced_pdf_path, requests, llm,
                   response, parse_outcome, sheets, tech_sheet_pages,
                   new_doc, extracted_paths, files, saved, second_parse, two_runs>>

\* lines 294-306: the sheet has no page, or no valid page: continue
SkipSheet ==
    /\ pc = "loop"
    /\ i <= Len(sheets)
    /\ \/ sheets[i].pages = <<>>
       \/ ValidPages(sheets[i].pages, total_pages) = <<>>
    /\ i' = i + 1
    /\ UNCHANGED <<confidence_threshold, total_pages, pdf_path, pc, exc,
                   stamp_doc, analysis_doc, enhanced_pdf_path, requests, llm,
                   response, parse_outcome, sheets, tech_sheet_pages,
                   doc_path, doc_open, new_doc, extracted_paths, files, saved, output_dirs, second_parse, two_runs>>

\* line 339: extracted_paths.append(output_path)
Recorded_First(paths, output_path) == <<output_path>> \o paths

Recorded(paths, output_path) == Append(paths, output_path)

\* a file that exists is not written again
Write_KeepFirst(output_path, page_list) ==
    /\ files' = IF \E f \in files : f.path = output_path THEN files
                ELSE files \cup {[path |-> output_path, pages |-> page_list]}
    /\ saved' = Append(saved, [index |-> i, path |-> output_path,
                               pages |-> page_list, source |-> doc_path])
    /\ extracted_paths' = Recorded(extracted_paths, output_path)

\* lines 333-339: new_doc, holding page_list copied from doc, is saved as
\* output_path
Write(output_path, page_list) ==
    /\ files' = {f \in files : f.path # output_path}
                  \cup {[path |-> output_path, pages |-> page_list]}
    /\ saved' = Append(saved, [index |-> i, path |-> output_path,
                               pages |-> page_list, source |-> doc_path])
    /\ extracted_paths' = Recorded(extracted_paths, output_path)

\* line 333: the path of the sheet under the directory of the catalog
output_path(output_dir, catalog_pdf_path, sheet, page_list) ==
    join(output_subdir(output_dir, catalog_pdf_path),
         output_filename(sheet, page_list))

\* lines 303-339 with page_list the valid pages of the sheet
Materialize(sheet, page_list) ==
    /\ page_list # <<>>
    /\ Write(output_path(DefaultOutputDir, pdf_path, sheet, page_list),
             page_list)

\* lines 308-339: copy the pages, name the file, save it, close new_doc
SaveSheet ==
    /\ pc = "loop"
    /\ i <= Len(sheets)
    /\ sheets[i].pages # <<>>
    /\ safe_name(sheets[i].product).ok
    /\ Materialize(sheets[i], ValidPages(sheets[i].pages, total_pages))
    /\ new_doc' = "closed"
    /\ i' = i + 1
    /\ UNCHANGED <<confidence_threshold, total_pages, pdf_path, pc, exc,
                   stamp_doc, analysis_doc, enhanced_pdf_path, requests, llm,
                   response, parse_outcome, sheets, tech_sheet_pages,
                   doc_path, doc_open, output_dirs, second_parse, two_runs>>

\* lines 309-317: new_doc is opened and filled, then the product is
\* iterated: TypeError for None, a number or a bool, AttributeError for a
\* list with a member that is no str; nothing in the method catches it
NameFails ==
    /\ pc = "loop"
    /\ i <= Len(sheets)
    /\ sheets[i].pages # <<>>
    /\ ValidPages(sheets[i].pages, total_pages) # <<>>
    /\ ~safe_name(sheets[i].product).ok
    /\ new_doc' = "open"
    /\ exc' = safe_name(sheets[i].product).exc
    /\ pc' = "raised"
    /\ UNCHANGED <<confidence_threshold, total_pages, pdf_path, stamp_doc,
                   analysis_doc, enhanced_pdf_path, requests, llm, response,
                   parse_outcome, sheets, tech_sheet_pages, doc_path,
                   doc_open, i, extracted_paths, files, saved, output_dirs, second_parse, two_runs>>

\* line 336: new_doc.save raises; nothing in the method catches it
SaveFails ==
    /\ pc = "loop"
    /\ i <= Len(sheets)
    /\ sheets[i].pages # <<>>
    /\ safe_name(sheets[i].product).ok
    /\ ValidPages(sheets[i].pages, total_pages) # <<>>
    /\ new_doc' = "open"
    /\ exc' = "SaveError"
    /\ pc' = "raised"
    /\ UNCHANGED <<confidence_threshold, total_pages, pdf_path, stamp_doc,
                   analysis_doc, enhanced_pdf_path, requests, llm, response,
                   parse_outcome, sheets, tech_sheet_pages, doc_path,
                   doc_open, i, extracted_paths, files, saved, output_dirs, second_parse, two_runs>>

\* lines 346-354: close the document, return extracted_paths
Finish ==
    /\ pc = "loop"
    /\ i > Len(sheets)
    /\ doc_open' = FALSE
    /\ pc' = "done"
    /\ UNCHANGED <<confidence_threshold, total_pages, pdf_path, exc,
                   stamp_doc, analysis_doc, enhanced_pdf_path, requests, llm,
                   response, parse_outcome, sheets, tech_sheet_pages,
                   doc_path, new_doc, i, extracted_paths, files, saved, output_dirs, second_parse, two_runs>>

\* Pipeline.extract_and_print, lines 139-162: the original PDF is sent to
\* the LLM service (line 150), the reply parsed (line 153) and the
\* boundaries printed; neither self.last_response nor self.tech_sheet_pages
\* is assigned, no file is written, None is returned
ExtractAndPrint ==
    /\ pc = "stamp"
    /\ \E reply \in Replies :
        /\ llm' = reply
        /\ IF _parse_boundaries(ReplyValue(reply), confidence_threshold).raised
           THEN pc' = "raised" /\ exc' = "Exception"
           ELSE pc' = "printed" /\ UNCHANGED exc
    /\ requests' = requests + 1
    /\ UNCHANGED <<confidence_threshold, total_pages, pdf_path, stamp_doc,
                   analysis_doc, enhanced_pdf_path, response, parse_outcome,
                   sheets, tech_sheet_pages, doc_path, doc_open, new_doc, i,
                   extracted_paths, files, saved, output_dirs, second_parse, two_runs>>

\* the largest number of questions asked in one chat
MaxQuestions == 2

\* OCRAnalyzer.interactive_document_chat, ocr_analyzer.py lines 183-231:
\* one question: the PDF is uploaded (line 206), one chat completion is
\* requested (lines 216-224) and the answer, whatever it is, printed and
\* kept in the local conversation only
Ask ==
    /\ pc \in {"stamp", "chat"}
    /\ requests < MaxQuestions
    /\ requests' = requests + 1
    /\ pc' = "chat"
    /\ UNCHANGED <<confidence_threshold, total_pages, pdf_path, exc,
                   stamp_doc, analysis_doc, enhanced_pdf_path, llm, response,
                   parse_outcome, sheets, tech_sheet_pages, doc_path,
                   doc_open, new_doc, i, extracted_paths, files, saved,
                   output_dirs, second_parse, two_runs>>

\* interactive_document_chat, lines 184-188: "exit", "quit" or "q" ends the
\* chat
EndChat ==
    /\ pc \in {"stamp", "chat"}
    /\ pc' = "chat_done"
    /\ UNCHANGED <<confidence_threshold, total_pages, pdf_path, exc,
                   stamp_doc, analysis_doc, enhanced_pdf_path, requests, llm,
                   response, parse_outcome, sheets, tech_sheet_pages,
                   doc_path, doc_open, new_doc, i, extracted_paths, files,
                   saved, output_dirs, second_parse, two_runs>>

Next ==
    \/ Stamp
    \/ StampOpenFails
    \/ Analyze
    \/ SaveAnalysis
    \/ ProcessFile
    \/ ParseResponse
    \/ ReturnEmpty
    \/ OpenDocument
    \/ SkipSheet
    \/ SaveSheet
    \/ NameFails
    \/ SaveFails
    \/ Finish
    \/ ExtractAndPrint
    \/ Ask
    \/ EndChat

Spec == Init /\ [][Next]_vars

TypeOK ==
    /\ pc \in {"stamp", "analyze", "save_analysis", "process_file", "parse",
               "sheets", "loop", "done", "raised", "printed", "chat",
               "chat_done"}
    /\ parse_outcome \in {"none", "returned", "raised"}
    /\ i \in 0..(Len(sheets) + 1)
    /\ doc_open \in BOOLEAN

(***************************************************************************)
(* The call of _parse_boundaries alone: a pipeline with any of the         *)
(* thresholds gets a reply and parses it (extract_sheets, lines 182-196),  *)
(* and the reply it kept is parsed a second time.  No document is opened:  *)
(* total_pages is 0.                                                       *)
(***************************************************************************)
InitParse ==
    /\ confidence_threshold \in ParseThresholds
    /\ total_pages = 0
    /\ pdf_path = CatalogPath
    /\ pc = "process_file"
    /\ exc = "none"
    /\ stamp_doc = "unopened"
    /\ analysis_doc = "unopened"
    /\ enhanced_pdf_path = <<>>
    /\ requests = 0
    /\ llm = NoReply
    /\ response = PyNone
    /\ parse_outcome = "none"
    /\ sheets = <<>>
    /\ tech_sheet_pages = {}
    /\ doc_path = <<>>
    /\ doc_open = FALSE
    /\ new_doc = "unopened"
    /\ i = 0
    /\ extracted_paths = <<>>
    /\ files = {}
    /\ saved = <<>>
    /\ output_dirs = {DefaultOutputDir}
    /\ second_parse = NotParsedAgain
    /\ NoTwoRuns

\* _parse_boundaries, lines 59-137, called once more after extract_sheets
\* returned, on the reply kept in self.last_response (line 185) and with
\* the threshold the object has then
ParseAgain ==
    /\ pc = "sheets"
    /\ ~second_parse.done
    /\ second_parse' =
          [done |-> TRUE,
           raised |-> _parse_boundaries(response, confidence_threshold).raised,
           value |-> _parse_boundaries(response, confidence_threshold).value]
    /\ UNCHANGED <<confidence_threshold, total_pages, pdf_path, pc, exc,
                   stamp_doc, analysis_doc, enhanced_pdf_path, requests, llm,
                   response, parse_outcome, sheets, tech_sheet_pages,
                   doc_path, doc_open, new_doc, i, extracted_paths, files,
                   saved, output_dirs, two_runs>>

NextParse ==
    \/ ProcessFile
    \/ ParseResponse
    \/ ParseAgain

SpecParse == InitParse /\ [][NextParse]_vars

(***************************************************************************)
(* Two calls, their steps interleaved in any order: by two containers at   *)
(* once, or by one pipeline one after the other (frontend_ocr.py lines     *)
(* 211-215 call extract_sheets, then extract_sheets_to_pdf, on one file).  *)
(* Both use the directories of the one configuration (Config.OUTPUT_DIR,   *)
(* output_dir); what the LLM replies is left out: a run writes one sheet   *)
(* or none.  A run that stays at "sheets" is extract_sheets returning.     *)
(***************************************************************************)
Runs == {1, 2}

\* the boundary a run gets from its reply
RunSheet ==
    [product |-> PyStr(<<"T", "2", "2">>), pages |-> <<1, 2>>,
     confidence |-> PyFloat(9, 10), reason |-> PyStr(<<>>)]

\* lines 331-333: the path of the sheet file of the run on catalog_pdf_path
SheetPath(catalog_pdf_path) ==
    output_path(DefaultOutputDir, catalog_pdf_path, RunSheet,
                ValidPages(RunSheet.pages, Len(RunSheet.pages)))

InitTwoRuns ==
    /\ confidence_threshold \in {t \in Thresholds : FloatGE(t, PyFloat(6, 10))}
    /\ total_pages = Len(RunSheet.pages)
    /\ pdf_path = <<>>
    /\ Constructed
    /\ catalogs \in [Runs -> CatalogPaths]
    /\ stages = [r \in Runs |-> "stamp"]
    /\ writes = {}

\* the run r moves on to the stage next
Advance(r, next) == stages' = [stages EXCEPT ![r] = next]

\* the function by of the run r writes the file path
Writes(r, by, path) ==
    writes' = writes \cup {[run |-> r, by |-> by, path |-> path]}

\* document_processor.main, lines 157-160
RunStamp(r) ==
    /\ stages[r] = "stamp"
    /\ Writes(r, "add_page_identifiers", EnhancedPath(catalogs[r]))
    /\ Advance(r, "analyze")
    /\ UNCHANGED <<catalogs, one_run>>

\* document_processor.main, line 163
RunAnalyze(r) ==
    /\ stages[r] = "analyze"
    /\ Advance(r, "save_analysis")
    /\ UNCHANGED <<catalogs, writes, one_run>>

\* document_processor.main, lines 166-168
RunSaveAnalysis(r) ==
    /\ stages[r] = "save_analysis"
    /\ Writes(r, "main", AnalysisPath(catalogs[r]))
    /\ Advance(r, "process_file")
    /\ UNCHANGED <<catalogs, one_run>>

\* extract_sheets, lines 182-196
RunProcessFile(r) ==
    /\ stages[r] = "process_file"
    /\ Advance(r, "sheets")
    /\ UNCHANGED <<catalogs, writes, one_run>>

\* extract_sheets_to_pdf, lines 275-278
RunReturnEmpty(r) ==
    /\ stages[r] = "sheets"
    /\ Advance(r, "done")
    /\ UNCHANGED <<catalogs, writes, one_run>>

\* extract_sheets_to_pdf, lines 280-354
RunExtract(r) ==
    /\ stages[r] = "sheets"
    /\ Writes(r, "extract_sheets_to_pdf", SheetPath(catalogs[r]))
    /\ Advance(r, "done")
    /\ UNCHANGED <<catalogs, one_run>>

\* extract_and_print, lines 139-162: nothing is written
RunPrint(r) ==
    /\ stages[r] = "stamp"
    /\ Advance(r, "printed")
    /\ UNCHANGED <<catalogs, writes, one_run>>

\* an exception leaves the run (lines 123, 316, 336)
RunFails(r) ==
    /\ stages[r] \in {"stamp", "sheets"}
    /\ Advance(r, "failed")
    /\ UNCHANGED <<catalogs, writes, one_run>>

NextTwoRuns ==
    \E r \in Runs :
        \/ RunStamp(r)
        \/ RunAnalyze(r)
        \/ RunSaveAnalysis(r)
        \/ RunProcessFile(r)
        \/ RunReturnEmpty(r)
        \/ RunExtract(r)
        \/ RunPrint(r)
        \/ RunFails(r)

SpecTwoRuns == InitTwoRuns /\ [][NextTwoRuns]_vars

(***************************************************************************)
(* Properties                                                              *)
(***************************************************************************)
\* the call of _parse_boundaries has ended
Parsed == parse_outcome # "none"

\* the text holds a "[" and, after the first one, a "]"
HasBrackets(s) ==
    \E a \in 1..Len(s) : \E b \in (a + 1)..Len(s) : s[a] = "[" /\ s[b] = "]"

\* the text from its first "[" to its last "]", both included
Bracketed(s) ==
    SubSeq(s,
           CHOOSE a \in 1..Len(s) : s[a] = "[" /\ \A j \in 1..(a - 1) : s[j] # "[",
           CHOOSE b \in 1..Len(s) : s[b] = "]" /\ \A j \in (b + 1)..Len(s) : s[j] # "]")

\* r is the outcome of scanning one value at the start of s, and the value
\* is all of s but white space
WholeText(s, r) == r.ok /\ SkipWs(s, r.i) = Len(s) + 1

\* the text is valid JSON
IsJson(s) == WholeText(s, ParseValue(s, SkipWs(s, 1)))

\* the reply holds a JSON array between its first "[" and its last "]"
HasDecodedArray ==
    /\ response.t = "str"
    /\ HasBrackets(response.s)
    /\ IsJson(Bracketed(response.s))

\* the elements of that array
DecodedArray == json_loads(Bracketed(response.s)).v.a

\* the positions of the object elements whose confidence reaches the threshold
Confident(arr) ==
    {k \in 1..Len(arr) :
        /\ arr[k].t = "dict"
        /\ AboveThreshold(Confidence(arr[k]), confidence_threshold)}

\* the pages of the object element can be made integers
WellFormed(b) == CoercePages(PagesValue(b)).ok

\* the boundary a well-formed object element stands for
BoundaryOf(b) == Boundary(b, CoercePages(PagesValue(b)).v, Confidence(b))

\* the set of the pages a boundary lists
PageSet(sheet) == {sheet.pages[j] : j \in 1..Len(sheet.pages)}

\* no page the boundary lists lies in [1, total_pages]
NoValidPage(sheet) == \A p \in PageSet(sheet) : p < 1 \/ p > total_pages

\* C1: a returned list holds one boundary for each object element whose
\* coerced confidence is >= the threshold and none for the others (the
\* element is kept if and only if its confidence reaches the threshold),
\* and every returned boundary has confidence >= the threshold.
C1_KeptIffConfident ==
    (Parsed /\ HasDecodedArray) =>
        /\ Len(sheets) = Cardinality(Confident(DecodedArray))
        /\ \A j \in 1..Len(sheets) :
              AboveThreshold(sheets[j].confidence, confidence_threshold)

\* C2: when the array holds a malformed element next to well-formed ones,
\* every well-formed element whose confidence reaches the threshold is
\* still returned.
C2_MalformedAloneSkipped ==
    (Parsed /\ HasDecodedArray
       /\ \E k \in Confident(DecodedArray) : ~WellFormed(DecodedArray[k])) =>
        \A k \in Confident(DecodedArray) :
            WellFormed(DecodedArray[k]) =>
                \E j \in 1..Len(sheets) : sheets[j] = BoundaryOf(DecodedArray[k])

\* C3: _parse_boundaries never raises: whatever the reply, the call ends by
\* returning a list.
C3_ParseNeverRaises ==
    /\ parse_outcome # "raised"
    /\ Parsed => (parse_outcome = "returned" /\ DOMAIN sheets = 1..Len(sheets))

\* C3 witness: a reply whose pages made the try body raise TypeError, and
\* the call returned.
C3_Witness ==
    /\ parse_outcome = "returned"
    /\ ~ParseBody(response, confidence_threshold).ok
    /\ ParseBody(response, confidence_threshold).exc = "TypeError"

\* the source pages (1-indexed) of a saved sheet
SavedPages(e) == {e.pages[j] + 1 : j \in 1..Len(e.pages)}

\* C4: every output PDF written holds exactly the pages its boundary lists
\* that lie in [1, total_pages], in ascending page order.
C4_ExactlyListedValidPagesAscending ==
    \A n \in 1..Len(saved) :
        /\ SavedPages(saved[n]) =
              {p \in PageSet(sheets[saved[n].index]) : p >= 1 /\ p <= total_pages}
        /\ \A a \in 1..Len(saved[n].pages) : \A b \in (a + 1)..Len(saved[n].pages) :
              saved[n].pages[a] <= saved[n].pages[b]

\* C4 witness: pages [3,5,4] were written as source pages 3, 4, 5 and, of the
\* pages 7 and 99, page 7 alone was written.
C4_Witness ==
    /\ \E n \in 1..Len(saved) :
          /\ sheets[saved[n].index].pages = <<3, 5, 4>>
          /\ saved[n].pages = <<2, 3, 4>>
    /\ \E n \in 1..Len(saved) :
          /\ sheets[saved[n].index].pages = <<7, 99>>
          /\ saved[n].pages = <<6>>

\* C5: each source page appears at most once in the output PDF of a boundary.
C5_PagesDeduplicated ==
    \A n \in 1..Len(saved) :
        \A a \in 1..Len(saved[n].pages) : \A b \in 1..Len(saved[n].pages) :
            a # b => saved[n].pages[a] # saved[n].pages[b]

\* C6: a boundary with no page in [1, total_pages] is skipped: the step that
\* handles it writes no file, returns no path, raises nothing and moves on to
\* the next boundary.
C6_EmptyBoundarySkipped ==
    [][(pc = "loop" /\ i <= Len(sheets) /\ NoValidPage(sheets[i])) =>
          /\ pc' = "loop"
          /\ i' = i + 1
          /\ UNCHANGED <<files, saved, extracted_paths>>]_vars

\* C6 witness: the run ended without error, a boundary with no valid page was
\* passed over and a boundary after it was written.
C6_Witness ==
    /\ pc = "done"
    /\ \E n \in 1..Len(saved) : \E k \in 1..(saved[n].index - 1) :
          NoValidPage(sheets[k])

\* C7: a failure to write one output PDF is not propagated by
\* extract_sheets_to_pdf; the call goes on with the next boundary.
C7_WriteFailureContained == ~(pc = "raised" /\ exc = "SaveError")

\* C8: a reply without "[", without "]" after its first "[", or whose text
\* between them is no valid JSON, gives the empty list, as the empty array does.
C8_NoArrayGivesEmpty ==
    /\ (Parsed /\ response.t = "str" /\ ~HasDecodedArray) =>
          (parse_outcome = "returned" /\ sheets = <<>>)
    /\ (Parsed /\ response.t = "str" /\ response.s = <<"[", "]">>) =>
          (parse_outcome = "returned" /\ sheets = <<>>)

\* C8 witness: the reply "No boundaries found" was parsed to the empty list.
C8_Witness ==
    /\ Parsed
    /\ response = PyStr(RawNoBoundaries)
    /\ parse_outcome = "returned"
    /\ sheets = <<>>

\* the boundary of the T22 scenario
T22Boundary ==
    [product |-> PyStr(<<"T", "2", "2">>),
     pages |-> <<1, 2>>,
     confidence |-> PyFloat(9, 10),
     reason |-> PyStr(<<"h", "e", "a", "d", "e", "r", " ", "m", "a", "t", "c", "h">>)]

\* the reply of the T22 scenario
T22Reply ==
    [prefix |-> PrefixHere, body |-> ArrayText(<<ElemT22>>),
     suffix |-> SuffixThanks, str |-> TRUE]

\* C9: for a valid JSON array A, a prefix without "[" and a suffix without
\* "]", the reply prefix + A + suffix parses to the boundaries of A alone;
\* the T22 scenario gives the one boundary T22, pages [1,2], confidence 0.9.
C9_ParsesOnlyTheArray ==
    /\ (Parsed /\ llm.str /\ IsJson(llm.body)
          /\ (\A k \in 1..Len(llm.prefix) : llm.prefix[k] # "[")
          /\ (\A k \in 1..Len(llm.suffix) : llm.suffix[k] # "]")) =>
          sheets = _parse_boundaries(PyStr(llm.body), confidence_threshold).value
    /\ (Parsed /\ llm = T22Reply) => sheets = <<T22Boundary>>

\* C9 witness: the T22 scenario was parsed to one boundary.
C9_Witness == Parsed /\ llm = T22Reply /\ Len(sheets) = 1

\* C10: no two boundaries returned for one run have the same product and the
\* same page set.
C10_NoIdenticalBoundaries ==
    \A j \in 1..Len(sheets) : \A k \in 1..Len(sheets) :
        j # k => ~(/\ sheets[j].product = sheets[k].product
                   /\ PageSet(sheets[j]) = PageSet(sheets[k]))

\* C11: every boundary returned by _parse_boundaries has a confidence in
\* [0.0, 1.0], whatever number the reply gave.
C11_ConfidenceInUnitInterval ==
    \A j \in 1..Len(sheets) :
        /\ FloatGE(sheets[j].confidence, PyFloat(0, 1))
        /\ FloatGE(PyFloat(1, 1), sheets[j].confidence)

\* C12: every boundary returned by _parse_boundaries has a product that is
\* a non-empty string.
C12_ProductNonEmptyString ==
    \A j \in 1..Len(sheets) :
        /\ sheets[j].product.t = "str"
        /\ sheets[j].product.s # <<>>

\* close() was called on the handle, if it was ever opened
ClosedOrUnopened(handle) == handle \in {"unopened", "closed"}

\* C13: once add_page_identifiers, analyze_pdf_structure or
\* extract_sheets_to_pdf has returned or raised, every document handle it
\* opened has been closed.
C13_HandlesClosedOnExit ==
    /\ pc # "stamp" => ClosedOrUnopened(stamp_doc)
    /\ pc \notin {"stamp", "analyze"} => ClosedOrUnopened(analysis_doc)
    /\ pc \in {"done", "raised"} => (~doc_open /\ ClosedOrUnopened(new_doc))

\* C14: the pages of every output sheet are copied from the stamped copy of
\* the PDF.
C14_PagesFromStampedCopy ==
    \A n \in 1..Len(saved) : saved[n].source = enhanced_pdf_path

\* C15: two runs on different PDF files write no file path in common.
C15_NoPathWrittenByBothRuns ==
    \A w1 \in writes : \A w2 \in writes :
        (w1.run # w2.run /\ catalogs[w1.run] # catalogs[w2.run]) =>
            w1.path # w2.path

\* C16: when the input PDF cannot be opened the run ends there with the
\* error: no LLM request is issued and no sheet file is written.
C16_OpenFailureAborts ==
    exc = "FileNotFoundError" =>
        /\ pc = "raised"
        /\ requests = 0
        /\ files = {}
        /\ saved = <<>>
        /\ extracted_paths = <<>>

\* C16 witness: the open of the input PDF failed and the run ended.
C16_Witness == exc = "FileNotFoundError" /\ pc = "raised" /\ requests = 0

\* C17: add_page_identifiers saves to a path that differs from the input
\* path, and no file a run writes, whether it completes or fails, is its
\* original PDF.
C17_OriginalNeverWritten ==
    /\ \A r \in DOMAIN catalogs : EnhancedPath(catalogs[r]) # catalogs[r]
    /\ \A w \in writes : w.path # catalogs[w.run]

\* the position in saved of the last write to the path
LastWrite(path) ==
    CHOOSE n \in 1..Len(saved) :
        /\ saved[n].path = path
        /\ \A m \in (n + 1)..Len(saved) : saved[m].path # path

\* C18: when two boundaries of a run give the same output filename the
\* later write replaces the earlier one: one file exists at the path, it
\* holds the pages of the later boundary, and the list of paths still has
\* one entry for each boundary written.
C18_LaterWriteReplaces ==
    /\ \A f \in files : \A g \in files : f.path = g.path => f = g
    /\ \A n \in 1..Len(saved) :
          \E f \in files :
              /\ f.path = saved[n].path
              /\ f.pages = saved[LastWrite(saved[n].path)].pages
    /\ Len(extracted_paths) = Len(saved)
    /\ \A n \in 1..Len(saved) : extracted_paths[n] = saved[n].path

\* C18 witness: the run ended after two boundaries with different pages were
\* written to one path; one file is there and two paths are returned.
C18_Witness ==
    /\ pc = "done"
    /\ Len(saved) = 2
    /\ saved[1].path = saved[Len(saved)].path
    /\ saved[1].pages # saved[Len(saved)].pages
    /\ Cardinality(files) = 1
    /\ Len(extracted_paths) = Len(saved)

\* the positions of the boundaries with at least one page in [1, total_pages]
Surviving == {k \in 1..Len(sheets) : ~NoValidPage(sheets[k])}

\* C19: extract_sheets_to_pdf returns exactly one path for each surviving
\* boundary, in the order of the boundaries in the list parsed from the
\* reply.
C19_OnePathPerSurvivingBoundaryInOrder ==
    pc = "done" =>
        /\ Len(extracted_paths) = Cardinality(Surviving)
        /\ Len(saved) = Len(extracted_paths)
        /\ {saved[n].index : n \in 1..Len(saved)} = Surviving
        /\ \A m \in 1..Len(saved) : \A n \in (m + 1)..Len(saved) :
              saved[m].index < saved[n].index
        /\ \A n \in 1..Len(saved) :
              extracted_paths[n] =
                  output_path(DefaultOutputDir, pdf_path,
                              sheets[saved[n].index], saved[n].pages)

\* C19 witness: two paths were returned, the first for a boundary of lower
\* confidence and higher pages than the second.
C19_Witness ==
    /\ pc = "done"
    /\ Len(saved) > 1
    /\ extracted_paths[1] # extracted_paths[Len(extracted_paths)]
    /\ ~FloatGE(sheets[saved[1].index].confidence,
                sheets[saved[Len(saved)].index].confidence)
    /\ saved[1].pages[1] > saved[Len(saved)].pages[1]

\* sub is made of the boundaries of elements of arr, in the order of arr
SubsequenceOf(sub, arr) ==
    \E f \in [1..Len(sub) -> 1..Len(arr)] :
        /\ \A a \in 1..Len(sub) : \A b \in (a + 1)..Len(sub) : f[a] < f[b]
        /\ \A j \in 1..Len(sub) :
              /\ arr[f[j]].t = "dict"
              /\ WellFormed(arr[f[j]])
              /\ sub[j] = BoundaryOf(arr[f[j]])

\* C20: the list _parse_boundaries returns is a subsequence of the decoded
\* array: the kept elements, in the order of the array.
C20_ParsedIsSubsequenceInOrder ==
    (Parsed /\ HasDecodedArray) => SubsequenceOf(sheets, DecodedArray)

\* C20 witness: two different boundaries were kept, the first with higher
\* pages than the second.
C20_Witness ==
    /\ Parsed
    /\ HasDecodedArray
    /\ Len(sheets) > 1
    /\ sheets[1] # sheets[Len(sheets)]
    /\ sheets[1].pages # <<>>
    /\ sheets[Len(sheets)].pages # <<>>
    /\ sheets[1].pages[1] > sheets[Len(sheets)].pages[1]

\* C21: one run issues exactly one LLM request and none after a reply that
\* fails to parse or yields no boundary.
C21_OneRequestNoRetry ==
    /\ pc \notin {"chat", "chat_done"} => requests <= 1
    /\ Parsed => requests = 1
    /\ pc \in {"done", "printed"} => requests = 1

\* C21 witness: the run ended with no sheet after a reply without array, and
\* one request was sent.
C21_Witness ==
    /\ pc = "done"
    /\ response.t = "str"
    /\ ~HasDecodedArray
    /\ sheets = <<>>
    /\ requests = 1

DistinctInRange(pages, n) ==
    /\ \A a \in 1..Len(pages) : pages[a] >= 1 /\ pages[a] <= n
    /\ \A a \in 1..Len(pages) : \A b \in (a + 1)..Len(pages) :
          pages[a] # pages[b]

\* C23: the pages of every boundary extract_sheets returns are distinct
\* pages within [1, total_pages], and so is every member of
\* tech_sheet_pages.
C23_PagesDistinctInRange ==
    /\ \A j \in 1..Len(sheets) : DistinctInRange(sheets[j].pages, total_pages)
    /\ \A q \in tech_sheet_pages : q >= 1 /\ q <= total_pages

\* the element is an object whose pages value is a string
PagesIsStr(b) ==
    /\ b.t = "dict"
    /\ DictHas(b.o, KeyPages)
    /\ DictGet(b.o, KeyPages).t = "str"

\* some boundary of the list stands for the element b
ReturnedFor(list, b) ==
    \E j \in 1..Len(list) :
        /\ list[j].product = DictGetDefault(b.o, KeyProduct, UnnamedProduct)
        /\ list[j].confidence = Confidence(b)

\* every confident element of arr with a string for pages is in the list
StringPagesReturned(list, arr) ==
    \A k \in Confident(arr) : PagesIsStr(arr[k]) => ReturnedFor(list, arr[k])

\* C24: an element whose pages value is a string is returned whatever the
\* string holds: the decoded JSON, else the integers between commas, else
\* no page.
C24_StringPagesAlwaysReturned ==
    (Parsed /\ HasDecodedArray) => StringPagesReturned(sheets, DecodedArray)

\* the element is an object without confidence, or with one float() refuses
DefaultsConfidence(b) ==
    /\ b.t = "dict"
    /\ \/ ~DictHas(b.o, KeyConfidence)
       \/ ~float(DictGet(b.o, KeyConfidence)).ok

\* every element of arr that gets the default confidence is in the list with
\* confidence 0.7 exactly when the threshold is at most 0.7
DefaultsKept(list, arr) ==
    \A k \in 1..Len(arr) :
        DefaultsConfidence(arr[k]) =>
            ((\E j \in 1..Len(list) :
                 /\ list[j].product = DictGetDefault(arr[k].o, KeyProduct, UnnamedProduct)
                 /\ list[j].confidence = PyFloat(7, 10))
             <=> FloatGE(PyFloat(7, 10), confidence_threshold))

\* C25: an element without confidence key, or whose confidence is no
\* number, gets confidence 0.7 and is kept exactly when the threshold is
\* at most 0.7.
C25_DefaultConfidenceKept ==
    (Parsed /\ HasDecodedArray) => DefaultsKept(sheets, DecodedArray)

\* the smallest and the largest member of a non-empty set of integers
MinOf(S) == CHOOSE x \in S : \A y \in S : x <= y

MaxOf(S) == CHOOSE x \in S : \A y \in S : x >= y

\* p<single> or p<first>-<last> for the 1-indexed pages S of a sheet of n pages
RangeText(S, n) ==
    IF n = 1 THEN <<"p">> \o IntToStr(MinOf(S))
    ELSE <<"p">> \o IntToStr(MinOf(S)) \o <<"-">> \o IntToStr(MaxOf(S))

\* the filename whose leading field is the smallest page of S and whose
\* page range is that of S
NamedByPages(sheet, S, n) ==
    <<"s", "h", "e", "e", "t", "_">> \o IntToStr(MinOf(S))
    \o <<"_">> \o safe_name(sheet.product).v
    \o <<"_">> \o RangeText(S, n)
    \o <<"_", "c", "o", "n", "f">> \o Format2f(sheet.confidence)
    \o <<".", "p", "d", "f">>

\* C26: in every output filename the page range is p<single> for a sheet of
\* one page and p<first>-<last> otherwise, first and last being the smallest
\* and the largest page of the sheet, and the field after sheet_ is that
\* smallest page.
C26_PageRangeAndFirstPage ==
    \A n \in 1..Len(saved) :
        basename(saved[n].path) =
            NamedByPages(sheets[saved[n].index], SavedPages(saved[n]),
                         Len(saved[n].pages))

\* C26 witness: a sheet of one page and a sheet of several pages, listed out
\* of order, were written.
C26_Witness ==
    /\ \E n \in 1..Len(saved) : Len(saved[n].pages) = 1
    /\ \E n \in 1..Len(saved) :
          /\ Len(saved[n].pages) > 2
          /\ sheets[saved[n].index].pages[Len(sheets[saved[n].index].pages)]
                 # MaxOf(SavedPages(saved[n]))

\* the name has at most 50 characters, all of them alphanumerics, hyphens or
\* underscores but for three dots at the end of a name of 50 characters
Sanitized(name) ==
    /\ Len(name) <= 50
    /\ \A k \in 1..Len(name) :
          \/ isalnum(name[k])
          \/ name[k] \in {"-", "_"}
          \/ name[k] = "." /\ Len(name) = 50 /\ k > Len(name) - 3

\* C27: the sanitized name of every product that has one is at most 50
\* characters long and holds only alphanumerics, hyphens and underscores,
\* apart from the ellipsis that ends a truncated name.
C27_SanitizedNameBounded ==
    /\ \A j \in 1..Len(sheets) :
          safe_name(sheets[j].product).ok =>
              Sanitized(safe_name(sheets[j].product).v)
    /\ \A n \in 1..Len(saved) : safe_name(sheets[saved[n].index].product).ok

\* C27 witness: a sheet whose product has more than 50 characters, among
\* them spaces and punctuation, was written under a name of 50 characters.
C27_Witness ==
    \E n \in 1..Len(saved) :
        /\ sheets[saved[n].index].product.t = "str"
        /\ Len(sheets[saved[n].index].product.s) > 50
        /\ \E k \in 1..Len(sheets[saved[n].index].product.s) :
              sheets[saved[n].index].product.s[k] \in {" ", "/", "("}
        /\ Len(safe_name(sheets[saved[n].index].product).v) = 50

\* C28: the stages of a run happen in the order stamp, page metadata, LLM
\* request, parse, materialize: a stage has begun only when the one before
\* it is finished, and no sheet file is written before the reply is parsed.
C28_StagesInOrder ==
    /\ analysis_doc # "unopened" => (stamp_doc # "unopened" /\ enhanced_pdf_path # <<>>)
    /\ (requests > 0 /\ pc \notin {"printed", "chat", "chat_done"}) =>
          (analysis_doc # "unopened" /\ pc \notin {"stamp", "analyze", "save_analysis"})
    /\ Parsed => (requests > 0 /\ pc # "process_file")
    /\ (doc_path # <<>> \/ files # {} \/ saved # <<>>) => parse_outcome = "returned"
    /\ files # {} => doc_path # <<>>

\* C28 witness: the run went through every stage and wrote a sheet.
C28_Witness ==
    /\ pc = "done"
    /\ stamp_doc # "unopened"
    /\ analysis_doc # "unopened"
    /\ requests = 1
    /\ parse_outcome = "returned"
    /\ files # {}

\* C30: when the reply yields no boundary extract_sheets_to_pdf returns the
\* empty list, makes no directory for the catalog, opens no document and
\* writes no sheet file.
C30_NoSideEffectOnEmptyResult ==
    (Parsed /\ parse_outcome = "returned" /\ sheets = <<>>) =>
        /\ pc \in {"sheets", "done"}
        /\ extracted_paths = <<>>
        /\ output_subdir(DefaultOutputDir, pdf_path) \notin output_dirs
        /\ doc_path = <<>>
        /\ ~doc_open
        /\ new_doc = "unopened"
        /\ files = {}

\* C30 witness: the run returned after a reply whose array is empty.
C30_Witness ==
    /\ pc = "done"
    /\ HasDecodedArray
    /\ DecodedArray = <<>>
    /\ sheets = <<>>
    /\ extracted_paths = <<>>

\* sub is made of members of seq, in the order of seq
IsSubsequence(sub, seq) ==
    \E f \in [1..Len(sub) -> 1..Len(seq)] :
        /\ \A a \in 1..Len(sub) : \A b \in (a + 1)..Len(sub) : f[a] < f[b]
        /\ \A j \in 1..Len(sub) : sub[j] = seq[f[j]]

\* C29: for one reply and thresholds t1 <= t2 the boundaries returned with
\* t2 are a subsequence of those returned with t1.
C29_ThresholdMonotone ==
    Parsed =>
        \A t \in ParseThresholds :
            FloatGE(t, confidence_threshold) =>
                IsSubsequence(_parse_boundaries(response, t).value, sheets)

====
